---- MODULE Spec2Model ----
(***************************************************************************)
(* Product-recommendation chatbot: the conversation orchestrator           *)
(* (utils/chatbot.py) over the vector store adapter (utils/vector_store.py)*)
(* and the static catalog (data/products.py).                              *)
(*                                                                         *)
(* Texts are sequences of tokens: a word, a brace, or one "key": value     *)
(* member of a JSON object.  Python values are tagged records.  The hosted *)
(* language model, embedding model and vector index are external: every    *)
(* call to them is a step whose outcome (a reply or an exception) is       *)
(* chosen from a bounded set.                                              *)
(***************************************************************************)
EXTENDS Integers, Sequences, FiniteSets, TLC

VARIABLES
    op,        \* the public operation in progress ("none" before the first call)
    pc,        \* position inside it: idle, llm_intent, embed, query, llm_compose, done
    msg,       \* user_message of the current call
    intent,    \* dict returned by _extract_search_intent
    path,      \* how the intent was obtained: none, primary, fallback_parse, fallback_exc
    searchOp,  \* vector-store search method entered by the call
    filter,    \* filter_dict handed to search_products
    query,     \* query handed to search_products
    topK,      \* top_k handed to search_products
    products,  \* list returned by the search method
    response,  \* text returned by chat / the composers
    outcome,   \* pending, returned, raised (of the public operation)
    uncaught,  \* an exception reached the handler of chat
    calls,     \* external calls issued by the current operation, in order
    ext,       \* outcome of the external call that ended last
    index,     \* records held by the vector index: id -> metadata
    catalog,   \* the product table the process was started with
    vectors,   \* populate_index: the vectors built from the catalog
    offset,    \* populate_index: start of the batch being sent
    upserts,   \* populate_index: the upsert calls issued, in order
    failedEmb, \* populate_index: catalog positions whose embedding call failed
    before,    \* populate_index: the index as the run found it
    runs,      \* populate_index runs started so far
    result,    \* value returned by get_index_stats or a catalog accessor
    arg,       \* the arguments of the catalog accessor called
    memory,    \* the stored messages of each orchestrator constructed
    prev,      \* the orchestrator's state when its latest operation began
    cache,     \* st.cache_resource: the components the host process has cached
    bots,      \* the orchestrator each session's script obtained (0: none)
    messages,  \* st.session_state.messages of each session
    who,       \* the session whose prompt is being answered (0: none)
    hosted,    \* the index exists at the hosting service
    stores,    \* the vector-store adapters constructed so far
    creates    \* the create_index calls issued so far, by how each ended

\* the locals of populate_index
populateVars == <<vectors, offset, upserts, failedEmb, before, runs>>

\* what the chatbot's operations leave alone
appVars == <<catalog, vectors, offset, upserts, failedEmb, before, runs, result, arg,
             hosted, stores, creates>>

\* the hosted index as a service, and the adapters on it
adapterVars == <<hosted, stores, creates>>

\* what the operations outside the chatbot leave alone
chatVars == <<msg, intent, path, searchOp, filter, query, topK, products,
              response, uncaught, calls, ext,
             memory, prev, cache, bots, messages, who>>

sessVars == <<memory, prev, cache, bots, messages, who>>

vars == <<op, pc, msg, intent, path, searchOp, filter, query, topK, products,
          response, outcome, uncaught, calls, ext, index, catalog, vectors,
          offset, upserts, failedEmb, before, runs, result, arg, memory, prev, cache,
          bots, messages, who, hosted, stores, creates>>

-----------------------------------------------------------------------------
(* Python values *)

None == [ty |-> "none"]
Str(text) == [ty |-> "str", s |-> text]
Num(n) == [ty |-> "num", n |-> n]
List(l) == [ty |-> "list", l |-> l]

\* bool(v) as Python's `if v:` evaluates it
Truthy(v) ==
    CASE v.ty = "none" -> FALSE
      [] v.ty = "str" -> v.s # <<>>
      [] v.ty = "num" -> v.n # 0
      [] v.ty = "list" -> v.l # <<>>

(* Text tokens *)

Word(w) == [t |-> "word", k |-> w, v |-> None]
LBrace == [t |-> "{", k |-> "", v |-> None]
RBrace == [t |-> "}", k |-> "", v |-> None]
Pair(key, val) == [t |-> "pair", k |-> key, v |-> val]

RECURSIVE Words(_)
\* a sequence of plain words as a text
Words(ws) == IF ws = <<>> THEN <<>> ELSE <<Word(Head(ws))>> \o Words(Tail(ws))

\* a one-word Python string
S(w) == Str(<<Word(w)>>)

-----------------------------------------------------------------------------
(* The catalog *)

PRODUCTS ==
  <<
    [id |-> "phone_001", name |-> "iPhone 15 Pro", category |-> "phone",
     brand |-> "Apple", price |-> 999,
     description |-> "Latest iPhone with A17 Pro chip, titanium design, and advanced camera system",
     specs |-> [screen_size |-> "6.1 inches", storage |-> "128GB", ram |-> "8GB", processor |-> "A17 Pro", camera |-> "48MP main + 12MP ultra-wide + 12MP telephoto", battery |-> "3274mAh", os |-> "iOS 17"],
     features |-> <<"5G", "Face ID", "Wireless charging", "Water resistant", "Titanium frame">>,
     tags |-> <<"premium", "camera", "gaming", "business", "photography">>],
    [id |-> "phone_002", name |-> "Samsung Galaxy S24 Ultra", category |-> "phone",
     brand |-> "Samsung", price |-> 1299,
     description |-> "Premium Android flagship with S Pen, advanced AI features, and exceptional camera",
     specs |-> [screen_size |-> "6.8 inches", storage |-> "256GB", ram |-> "12GB", processor |-> "Snapdragon 8 Gen 3", camera |-> "200MP main + 12MP ultra-wide + 50MP telephoto + 10MP telephoto", battery |-> "5000mAh", os |-> "Android 14"],
     features |-> <<"5G", "S Pen", "Wireless charging", "Water resistant", "AI features">>,
     tags |-> <<"premium", "camera", "productivity", "business", "creativity">>],
    [id |-> "phone_003", name |-> "Google Pixel 8", category |-> "phone",
     brand |-> "Google", price |-> 699,
     description |-> "AI-powered smartphone with exceptional camera and clean Android experience",
     specs |-> [screen_size |-> "6.2 inches", storage |-> "128GB", ram |-> "8GB", processor |-> "Google Tensor G3", camera |-> "50MP main + 12MP ultra-wide", battery |-> "4575mAh", os |-> "Android 14"],
     features |-> <<"5G", "AI camera", "Wireless charging", "Water resistant", "Google Assistant">>,
     tags |-> <<"camera", "AI", "mid-range", "photography", "clean UI">>],
    [id |-> "phone_004", name |-> "OnePlus 12", category |-> "phone",
     brand |-> "OnePlus", price |-> 799,
     description |-> "Fast performance with Hasselblad camera system and rapid charging",
     specs |-> [screen_size |-> "6.82 inches", storage |-> "256GB", ram |-> "16GB", processor |-> "Snapdragon 8 Gen 3", camera |-> "50MP main + 48MP ultra-wide + 64MP telephoto", battery |-> "5400mAh", os |-> "Android 14"],
     features |-> <<"5G", "100W charging", "Wireless charging", "Water resistant", "Hasselblad camera">>,
     tags |-> <<"performance", "fast charging", "camera", "gaming", "value">>],
    [id |-> "laptop_001", name |-> "MacBook Pro 14-inch", category |-> "laptop",
     brand |-> "Apple", price |-> 1999,
     description |-> "Professional laptop with M3 Pro chip, perfect for creative work and development",
     specs |-> [screen_size |-> "14.2 inches", storage |-> "512GB SSD", ram |-> "18GB", processor |-> "M3 Pro", gpu |-> "Integrated", battery |-> "Up to 22 hours", os |-> "macOS Sonoma"],
     features |-> <<"Retina display", "Touch Bar", "Thunderbolt 4", "Backlit keyboard", "Force Touch trackpad">>,
     tags |-> <<"premium", "creative", "development", "business", "portable">>],
    [id |-> "laptop_002", name |-> "Dell XPS 13 Plus", category |-> "laptop",
     brand |-> "Dell", price |-> 1499,
     description |-> "Ultra-slim premium Windows laptop with excellent performance and design",
     specs |-> [screen_size |-> "13.4 inches", storage |-> "512GB SSD", ram |-> "16GB", processor |-> "Intel Core i7-1360P", gpu |-> "Intel Iris Xe", battery |-> "Up to 12 hours", os |-> "Windows 11"],
     features |-> <<"InfinityEdge display", "Backlit keyboard", "Thunderbolt 4", "Fingerprint reader", "Premium build">>,
     tags |-> <<"premium", "business", "portable", "design", "professional">>],
    [id |-> "laptop_003", name |-> "Lenovo ThinkPad X1 Carbon", category |-> "laptop",
     brand |-> "Lenovo", price |-> 1699,
     description |-> "Business-focused laptop with legendary ThinkPad reliability and security",
     specs |-> [screen_size |-> "14 inches", storage |-> "1TB SSD", ram |-> "16GB", processor |-> "Intel Core i7-1355U", gpu |-> "Intel Iris Xe", battery |-> "Up to 15 hours", os |-> "Windows 11 Pro"],
     features |-> <<"ThinkPad keyboard", "Fingerprint reader", "IR camera", "Thunderbolt 4", "Military-grade durability">>,
     tags |-> <<"business", "reliable", "security", "professional", "durable">>],
    [id |-> "laptop_004", name |-> "ASUS ROG Zephyrus G14", category |-> "laptop",
     brand |-> "ASUS", price |-> 1299,
     description |-> "Gaming laptop with AMD Ryzen processor and dedicated graphics for gaming and content creation",
     specs |-> [screen_size |-> "14 inches", storage |-> "512GB SSD", ram |-> "16GB", processor |-> "AMD Ryzen 7 7735HS", gpu |-> "NVIDIA RTX 4050", battery |-> "Up to 8 hours", os |-> "Windows 11"],
     features |-> <<"144Hz display", "RGB keyboard", "Gaming performance", "Anime Matrix", "Portable gaming">>,
     tags |-> <<"gaming", "performance", "content creation", "portable", "RGB">>],
    [id |-> "tablet_001", name |-> "iPad Pro 12.9-inch", category |-> "tablet",
     brand |-> "Apple", price |-> 1099,
     description |-> "Professional tablet with M2 chip, perfect for creative work and productivity",
     specs |-> [screen_size |-> "12.9 inches", storage |-> "128GB", ram |-> "8GB", processor |-> "M2", camera |-> "12MP wide + 10MP ultra-wide", battery |-> "Up to 10 hours", os |-> "iPadOS 17"],
     features |-> <<"Liquid Retina XDR display", "Apple Pencil support", "Magic Keyboard", "5G optional", "Face ID">>,
     tags |-> <<"premium", "creative", "productivity", "professional", "large screen">>],
    [id |-> "tablet_002", name |-> "Samsung Galaxy Tab S9 Ultra", category |-> "tablet",
     brand |-> "Samsung", price |-> 1199,
     description |-> "Large Android tablet with S Pen and exceptional multimedia experience",
     specs |-> [screen_size |-> "14.6 inches", storage |-> "256GB", ram |-> "12GB", processor |-> "Snapdragon 8 Gen 2", camera |-> "13MP + 8MP dual", battery |-> "11200mAh", os |-> "Android 13"],
     features |-> <<"AMOLED display", "S Pen included", "5G optional", "Multi-window", "DeX mode">>,
     tags |-> <<"large screen", "multimedia", "productivity", "S Pen", "entertainment">>],
    [id |-> "tablet_003", name |-> "Microsoft Surface Pro 9", category |-> "tablet",
     brand |-> "Microsoft", price |-> 999,
     description |-> "2-in-1 tablet that transforms into a laptop with full Windows experience",
     specs |-> [screen_size |-> "13 inches", storage |-> "256GB SSD", ram |-> "16GB", processor |-> "Intel Core i5-1235U", camera |-> "10MP rear + 5MP front", battery |-> "Up to 15.5 hours", os |-> "Windows 11"],
     features |-> <<"2-in-1 design", "Surface Pen", "Type Cover", "Kickstand", "Full Windows">>,
     tags |-> <<"2-in-1", "productivity", "business", "versatile", "Windows">>],
    [id |-> "tablet_004", name |-> "Amazon Fire HD 10", category |-> "tablet",
     brand |-> "Amazon", price |-> 149,
     description |-> "Affordable tablet perfect for entertainment, reading, and basic tasks",
     specs |-> [screen_size |-> "10.1 inches", storage |-> "32GB", ram |-> "3GB", processor |-> "Octa-core", camera |-> "5MP rear + 2MP front", battery |-> "Up to 12 hours", os |-> "Fire OS"],
     features |-> <<"HD display", "Alexa integration", "Expandable storage", "Kid-friendly", "Affordable">>,
     tags |-> <<"budget", "entertainment", "reading", "kids", "value">>]
  >>

Catalog == {PRODUCTS[i] : i \in 1..Len(PRODUCTS)}

-----------------------------------------------------------------------------
(* Intent extraction (utils/chatbot.py) *)

\* str.lower() on the words that occur in the messages and replies explored
Lower(w) ==
    CASE w = "I" -> "i"
      [] w = "Laptop" -> "laptop"
      [] w = "iPhone" -> "iphone"
      [] w = "Sure" -> "sure"
      [] w = "Sorry" -> "sorry"
      [] w = "Apple" -> "apple"
      [] w = "APPLE" -> "apple"
      [] w = "Samsung" -> "samsung"
      [] w = "SAMSUNG" -> "samsung"
      [] w = "Google" -> "google"
      [] w = "OnePlus" -> "oneplus"
      [] w = "Dell" -> "dell"
      [] w = "Lenovo" -> "lenovo"
      [] w = "ASUS" -> "asus"
      [] w = "Microsoft" -> "microsoft"
      [] w = "Amazon" -> "amazon"
      [] w = "None" -> "none"
      [] OTHER -> w

\* the category keywords that occur as a substring of a lower-case word
KeywordsIn(w) ==
    CASE w = "phone" -> {"phone"}
      [] w = "smartphone" -> {"phone", "smartphone"}
      [] w = "iphone" -> {"phone", "iphone"}
      [] w = "android" -> {"android"}
      [] w = "laptop" -> {"laptop"}
      [] w = "computer" -> {"computer"}
      [] w = "macbook" -> {"macbook"}
      [] w = "notebook" -> {"notebook"}
      [] w = "tablet" -> {"tablet"}
      [] w = "ipad" -> {"ipad"}
      [] OTHER -> {}

RECURSIVE ValueWords(_)
\* the words spelled out by a value inside a text
ValueWords(v) ==
    CASE v.ty = "str" -> [i \in 1..Len(v.s) |-> v.s[i].k]
      [] v.ty = "list" ->
            IF v.l = <<>> THEN <<>>
            ELSE ValueWords(Head(v.l)) \o ValueWords(List(Tail(v.l)))
      [] OTHER -> <<>>

RECURSIVE FlatWords(_)
\* the words of a text, in order, braces dropped
FlatWords(text) ==
    IF text = <<>> THEN <<>>
    ELSE LET tok == Head(text)
             here == CASE tok.t = "word" -> <<tok.k>>
                       [] tok.t = "pair" -> <<tok.k>> \o ValueWords(tok.v)
                       [] OTHER -> <<>>
         IN here \o FlatWords(Tail(text))

\* `kw in text.lower()` for a keyword of one or more words
Contains(text, kw) ==
    LET flat == FlatWords(text)
    IN \E i \in 1..(Len(flat) - Len(kw) + 1) :
          \A j \in 1..Len(kw) : kw[j] \in KeywordsIn(Lower(flat[i + j - 1]))

PhoneWords == {<<"phone">>, <<"smartphone">>, <<"iphone">>, <<"android">>}
LaptopWords == {<<"laptop">>, <<"computer">>, <<"macbook">>, <<"notebook">>}
TabletWords == {<<"tablet">>, <<"ipad">>, <<"android", "tablet">>}

\* any(word in text.lower() for word in words)
AnyWordIn(words, text) == \E kw \in words : Contains(text, kw)

\* `tok in response` for a brace
HasToken(text, t) == \E i \in 1..Len(text) : text[i].t = t

\* str.find / str.rfind of a brace: 0-based position, -1 when absent
Find(text, t) ==
    IF HasToken(text, t)
    THEN (CHOOSE i \in 1..Len(text) :
             text[i].t = t /\ \A j \in 1..(i - 1) : text[j].t # t) - 1
    ELSE -1

RFind(text, t) ==
    IF HasToken(text, t)
    THEN (CHOOSE i \in 1..Len(text) :
             text[i].t = t /\ \A j \in (i + 1)..Len(text) : text[j].t # t) - 1
    ELSE -1

\* text[start:end] for 0 <= start
Slice(text, start, end) == SubSeq(text, start + 1, end)

\* json.loads accepts the text: one object, its members between the braces
JsonObjectText(text) ==
    /\ Len(text) >= 2
    /\ text[1].t = "{"
    /\ text[Len(text)].t = "}"
    /\ \A i \in 2..(Len(text) - 1) : text[i].t = "pair"

\* json.loads of an object: a dict, the last member of a repeated key wins
JsonObject(text) ==
    LET members == 2..(Len(text) - 1)
        keys == {text[i].k : i \in members}
        last(key) == CHOOSE i \in members :
                        text[i].k = key /\ \A j \in members : text[j].k = key => j <= i
    IN [key \in keys |-> text[last(key)].v]

\* lines 114-126 (content is the response argument): the reply holds both braces and the span between the first
\* "{" and the last "}" decodes
Decodes(content) ==
    /\ HasToken(content, "{")
    /\ HasToken(content, "}")
    /\ JsonObjectText(Slice(content, Find(content, "{"), RFind(content, "}") + 1))

\* lines 129-135: the ordered keyword rules
keyword_category(text) ==
    IF AnyWordIn(PhoneWords, text) THEN S("phone")
    ELSE IF AnyWordIn(LaptopWords, text) THEN S("laptop")
    ELSE IF AnyWordIn(TabletWords, text) THEN S("tablet")
    ELSE None

parse_intent_response(content) ==
    IF Decodes(content)
    THEN JsonObject(Slice(content, Find(content, "{"), RFind(content, "}") + 1))
    ELSE LET category == keyword_category(content)
         IN [category |-> category,
             min_price |-> None,
             max_price |-> None,
             brand |-> None,
             features |-> List(<<>>),
             search_query |-> Str(content)]

\* llm: the outcome of self.llm.invoke, [raises |-> BOOLEAN, content |-> text]
extract_search_intent(user_message, llm) ==
    IF llm.raises
    THEN [category |-> None,
          min_price |-> None,
          max_price |-> None,
          brand |-> None,
          features |-> List(<<>>),
          search_query |-> Str(user_message)]
    ELSE parse_intent_response(llm.content)

\* which branch produced the intent
IntentPath(llm) ==
    IF llm.raises THEN "fallback_exc"
    ELSE IF Decodes(llm.content) THEN "primary"
    ELSE "fallback_parse"

-----------------------------------------------------------------------------
(* Vector store (utils/vector_store.py) *)

TopKDefault == 5

\* length of the vectors the embedding model returns (1536 in the deployment)
EmbDim == 2

\* json.dumps / json.loads of a metadata field
json_dumps(x) == [json |-> x]
json_loads(s) == s.json

\* lines 93-103: the metadata stored with a product's vector
metadata_of(product) ==
    [id |-> product.id,
     name |-> product.name,
     category |-> product.category,
     brand |-> product.brand,
     price |-> product.price,
     description |-> product.description,
     specs |-> json_dumps(product.specs),
     features |-> json_dumps(product.features),
     tags |-> json_dumps(product.tags)]

\* lines 145-156: the product built from one match of the index
product_of(match) ==
    [id |-> match.metadata.id,
     name |-> match.metadata.name,
     category |-> match.metadata.category,
     brand |-> match.metadata.brand,
     price |-> match.metadata.price,
     description |-> match.metadata.description,
     specs |-> json_loads(match.metadata.specs),
     features |-> json_loads(match.metadata.features),
     tags |-> json_loads(match.metadata.tags),
     similarity_score |-> match.score]

\* lines 146-154: the metadata fields search_products reads
MetadataFields ==
    {"id", "name", "category", "brand", "price", "description", "specs", "features", "tags"}

\* json.loads accepts the stored text
Loadable(s) == "json" \in DOMAIN s

\* lines 145-156 run without an exception for the match
Convertible(match) ==
    /\ MetadataFields \subseteq DOMAIN match.metadata
    /\ Loadable(match.metadata.specs)
    /\ Loadable(match.metadata.features)
    /\ Loadable(match.metadata.tags)

\* lines 143-159: the matches converted in the order received
format_results(matches) == [i \in 1..Len(matches) |-> product_of(matches[i])]

\* the call of search_products a search method ends in
SearchCall(method, q, top_k, filter_dict) ==
    [method |-> method, query |-> q, top_k |-> top_k, filter |-> filter_dict]

search_by_category(category, q, top_k) ==
    SearchCall("search_by_category", q, top_k, [category |-> category])

search_by_price_range(min_price, max_price, q, top_k) ==
    SearchCall("search_by_price_range", q, top_k,
               [price |-> ("$gte" :> min_price) @@ ("$lte" :> max_price)])

search_by_brand(brand, q, top_k) ==
    SearchCall("search_by_brand", q, top_k, [brand |-> brand])

\* the index with every product of the catalog upserted
FullIndex == [id \in {p.id : p \in Catalog} |->
                 metadata_of(CHOOSE p \in Catalog : p.id = id)]

EmptyIndex == [id \in {} |-> id]

\* a stored text that is not JSON
NotJson == [text |-> "n/a"]

\* a record without the field k
Without(md, k) == [f \in DOMAIN md \ {k} |-> md[f]]

\* the full index after another writer replaced two records: that of the third
\* product lacks its tags, that of the tenth has specs that are not JSON
ForeignIndex ==
    LET third == PRODUCTS[3].id
        tenth == PRODUCTS[10].id
    IN [id \in DOMAIN FullIndex |->
           IF id = third THEN Without(FullIndex[id], "tags")
           ELSE IF id = tenth THEN [FullIndex[id] EXCEPT !.specs = NotJson]
           ELSE FullIndex[id]]

(* The hosted index: filtering and ranking *)

\* the service accepts the filter: a range needs numbers
FilterAccepted(f) ==
    "price" \in DOMAIN f => f.price["$gte"].ty = "num" /\ f.price["$lte"].ty = "num"

\* the metadata satisfies an accepted filter
FilterMatches(md, f) ==
    /\ "category" \in DOMAIN f => f.category = S(md.category)
    /\ "brand" \in DOMAIN f => f.brand = S(md.brand)
    /\ "price" \in DOMAIN f =>
          f.price["$gte"].n <= md.price /\ md.price <= f.price["$lte"].n

\* similarity reported at a rank, in thousandths (none a tie of Round2)
ScoreAt(rank) == 950 - 83 * (rank - 1)

\* the similarity orders explored: catalog order, its reverse, categories interleaved
Rankings ==
    {<<1, 2, 3, 4, 5, 6, 7, 8, 9, 10, 11, 12>>,
     <<12, 11, 10, 9, 8, 7, 6, 5, 4, 3, 2, 1>>,
     <<5, 1, 9, 7, 2, 10, 6, 3, 12, 8, 4, 11>>}

\* the answer of index.query: the top_k best stored records that pass the filter
QueryMatches(idx, ranking, f, top_k) ==
    LET ids == [i \in 1..Len(ranking) |-> PRODUCTS[ranking[i]].id]
        pass(id) == id \in DOMAIN idx /\ FilterMatches(idx[id], f)
        hits == SelectSeq(ids, pass)
        n == IF Len(hits) < top_k THEN Len(hits) ELSE top_k
    IN [r \in 1..n |-> [metadata |-> idx[hits[r]], score |-> ScoreAt(r)]]

-----------------------------------------------------------------------------
(* Response composition (utils/chatbot.py) *)

\* one line of a reply: a format and its arguments
Line(fmt, i, p, s, l) == [fmt |-> fmt, i |-> i, p |-> p, s |-> s, l |-> l]
Lit(text) == Line(text, 0, 0, "", <<>>)

NOT_FOUND ==
    <<Lit("I couldn't find any products matching your requirements."),
      Lit("Could you please provide more details about what you're looking for?")>>

CLUES ==
    <<Lit("- What type of device (phone, laptop, tablet)?"),
      Lit("- What's your budget range?"),
      Lit("- Any specific features you need?"),
      Lit("- Preferred brand?")>>

\* line 253
CLARIFICATION == NOT_FOUND \o <<Lit("For example:")>> \o CLUES

\* line 259
APOLOGY ==
    <<Lit("I'm sorry, I encountered an error while processing your request."),
      Lit("Please try again or rephrase your question.")>>

\* products[:n]
Take(seq, n) == SubSeq(seq, 1, IF Len(seq) < n THEN Len(seq) ELSE n)

\* f"{x:.2f}" of a score in thousandths: hundredths; a tie goes by the binary
\* value of the float, taken here to the even neighbour
Round2(x) ==
    LET q == x \div 10
        r == x % 10
    IN IF r > 5 \/ (r = 5 /\ q % 2 = 1) THEN q + 1 ELSE q

\* lines 154-171: the lines of entry i
EntryLines(i, product) ==
    LET specs == product.specs
        score == IF "similarity_score" \in DOMAIN product
                 THEN product.similarity_score ELSE 0
    IN <<Line("**{i}. {name}** (${price})", i, product.price, product.name, <<>>),
         Line("   Brand: {brand}", 0, 0, product.brand, <<>>),
         Line("   Description: {description}", 0, 0, product.description, <<>>)>>
       \o (IF "screen_size" \in DOMAIN specs
           THEN <<Line("   Screen: {screen_size}", 0, 0, specs.screen_size, <<>>)>>
           ELSE <<>>)
       \o (IF "storage" \in DOMAIN specs
           THEN <<Line("   Storage: {storage}", 0, 0, specs.storage, <<>>)>>
           ELSE <<>>)
       \o (IF "processor" \in DOMAIN specs
           THEN <<Line("   Processor: {processor}", 0, 0, specs.processor, <<>>)>>
           ELSE <<>>)
       \o (IF product.features # <<>>
           THEN <<Line("   Key Features: {features}", 0, 0, "", Take(product.features, 3))>>
           ELSE <<>>)
       \o <<Line("   Match Score: {score:.2f}", Round2(score), 0, "", <<>>)>>

RECURSIVE Entries(_, _)
\* lines 153-171: entries i.. of the shown products
Entries(i, shown) ==
    IF i > Len(shown) THEN <<>>
    ELSE EntryLines(i, shown[i]) \o Entries(i + 1, shown)

\* the remainder line added from three products on
format_remainder_from_three(ps) ==
    IF ps = <<>> THEN NOT_FOUND
    ELSE <<Lit("Here are some great options for you:")>>
         \o Entries(1, Take(ps, 3))
         \o (IF Len(ps) >= 3
             THEN <<Line("... and {n} more options available.", Len(ps) - 3, 0, "", <<>>)>>
             ELSE <<>>)
         \o <<Lit("Would you like me to provide more details about any of these products or help you narrow down your search?")>>

format_product_recommendations(ps) ==
    IF ps = <<>> THEN NOT_FOUND
    ELSE <<Lit("Here are some great options for you:")>>
         \o Entries(1, Take(ps, 3))
         \o (IF Len(ps) > 3
             THEN <<Line("... and {n} more options available.", Len(ps) - 3, 0, "", <<>>)>>
             ELSE <<>>)
         \o <<Lit("Would you like me to provide more details about any of these products or help you narrow down your search?")>>

\* lines 185-204: the prompt of the composition call
response_prompt(user_message, ps) ==
    [context |-> [i \in 1..Len(Take(ps, 3)) |-> <<ps[i].name, ps[i].description>>],
     message |-> user_message]

\* the failed call answered with the not-found text instead of the listing
contextual_reply_not_found(ps, llm) ==
    IF llm.raises THEN NOT_FOUND ELSE llm.content

\* lines 206-211: the reply, or the templated listing when the call raised
contextual_reply(ps, llm) ==
    IF llm.raises THEN format_product_recommendations(ps) ELSE llm.content

-----------------------------------------------------------------------------
(* chat, lines 227-247: the search the intent selects.  A dict lookup of a   *)
(* missing key raises KeyError.                                              *)

Raises == [raises |-> TRUE]
Calls(call) == [raises |-> FALSE, call |-> call]

\* the branch of the if/elif chain the intent takes; "raise" when a test looks
\* up a key the dict lacks
chat_branch(d) ==
    IF "category" \notin DOMAIN d THEN "raise"
    ELSE IF Truthy(d.category) THEN "category"
    ELSE IF "brand" \notin DOMAIN d THEN "raise"
    ELSE IF Truthy(d.brand) THEN "brand"
    ELSE IF "min_price" \notin DOMAIN d THEN "raise"
    ELSE IF d.min_price.ty = "none" THEN "general"
    ELSE IF "max_price" \notin DOMAIN d THEN "raise"
    ELSE IF d.max_price.ty = "none" THEN "general"
    ELSE "price"

\* the call the branch makes; its last argument is intent["search_query"]
chat_search(d) ==
    LET branch == chat_branch(d)
    IN IF branch = "raise" \/ "search_query" \notin DOMAIN d THEN Raises
       ELSE Calls(
           CASE branch = "category" ->
                    search_by_category(d.category, d.search_query, TopKDefault)
             [] branch = "brand" ->
                    search_by_brand(d.brand, d.search_query, TopKDefault)
             [] branch = "price" ->
                    search_by_price_range(d.min_price, d.max_price, d.search_query,
                                          TopKDefault)
             [] branch = "general" ->
                    SearchCall("search_products", d.search_query, TopKDefault, None))

\* the handler re-raising instead of answering
chat_except_reraises == [outcome |-> "raised", response |-> <<>>]

\* lines 257-259: what chat does with an exception that reaches it
chat_except == [outcome |-> "returned", response |-> APOLOGY]

-----------------------------------------------------------------------------
(* Bounded inputs *)

\* longest product list handed directly to a composer
MaxProducts == 5

\* a top_k below the default, for direct searches
SmallTopK == 2

Messages ==
    {Words(<<"I", "need", "a", "Laptop", "for", "work">>),
     Words(<<"laptop", "or", "iPhone">>),
     Words(<<"android", "tablet">>),
     Words(<<"something", "cheap">>)}

Obj(members) == <<LBrace>> \o members \o <<RBrace>>

\* a reply object of the shape the intent prompt asks for
FullObj(category, min_price, max_price, brand, search_query) ==
    Obj(<<Pair("category", category),
          Pair("min_price", min_price),
          Pair("max_price", max_price),
          Pair("brand", brand),
          Pair("features", List(<<S("fast")>>)),
          Pair("search_query", search_query)>>)

\* contents the language model may answer the intent prompt with
IntentReplies ==
    {Words(<<"Sure">>) \o FullObj(S("laptop"), None, None, S("None"),
                                  Str(Words(<<"laptop", "for", "work">>))),
     FullObj(None, None, None, S("Apple"), S("phone")),
     FullObj(None, Num(500), Num(1500), None, S("tablet")),
     FullObj(None, None, Num(1000), None, S("cheap")),
     FullObj(None, Num(500), None, None, S("cheap")),
     FullObj(S("laptop"), Num(500), Num(1500), S("Apple"), S("laptop")),
     FullObj(None, Num(500), Num(1500), S("Apple"), S("tablet")),
     FullObj(S("None"), None, None, S("None"), S("cheap")),
     FullObj(Str(<<>>), None, None, Str(<<>>), S("cheap")),
     FullObj(None, S("cheap"), S("pricey"), None, S("cheap")),
     FullObj(None, None, None, None, None),
     Obj(<<>>),
     Obj(<<Pair("category", None)>>),
     Obj(<<Pair("category", S("laptop"))>>),
     Obj(<<Pair("category", None), Pair("brand", None), Pair("min_price", Num(500))>>),
     Words(<<"I", "think", "a", "phone">>),
     Words(<<"Sorry">>),
     <<LBrace, Word("laptop"), RBrace>>,
     <<RBrace, Word("tablet"), LBrace>>,
     Obj(<<Pair("category", S("tablet"))>>) \o Words(<<"or">>)
         \o Obj(<<Pair("category", S("laptop"))>>)}

LlmRaises == [raises |-> TRUE, content |-> <<>>]
LlmReturns(content) == [raises |-> FALSE, content |-> content]

IntentOutcomes == {LlmRaises} \cup {LlmReturns(r) : r \in IntentReplies}

\* contents the language model may answer the composition prompt with
ComposeReplies ==
    {<<Lit("Great choice! Here is what I would recommend.")>>, <<>>}

ComposeOutcomes == {LlmRaises} \cup {LlmReturns(r) : r \in ComposeReplies}

\* outcomes of embeddings.create for an input
EmbeddingOutcomes(text) ==
    {[raises |-> TRUE, embedding |-> <<>>]}
    \cup (IF text.ty = "str"
          THEN {[raises |-> FALSE, embedding |-> [i \in 1..EmbDim |-> 1]]}
          ELSE {})

\* outcomes of index.query
IndexOutcomes(idx, f, top_k) ==
    {[raises |-> TRUE, matches |-> <<>>]}
    \cup (IF FilterAccepted(f)
          THEN {[raises |-> FALSE, matches |-> QueryMatches(idx, r, f, top_k)] :
                   r \in Rankings}
          ELSE {})

\* product lists handed directly to the composers: search results and catalog slices
ProductLists ==
    {Take(format_results(QueryMatches(FullIndex, r, None, Len(PRODUCTS))), n) :
        r \in Rankings, n \in 0..MaxProducts}
    \cup {Take(PRODUCTS, n) : n \in 0..MaxProducts}

\* direct calls of the public search methods
DirectSearches ==
    UNION {{SearchCall("search_products", S("cheap"), k, None),
            SearchCall("search_products", S("cheap"), k, [brand |-> S("Apple")]),
            search_by_category(S("phone"), S("cheap"), k),
            search_by_brand(S("Samsung"), S("cheap"), k),
            search_by_price_range(Num(0), Num(1000), S("cheap"), k)} :
           k \in {SmallTopK, TopKDefault}}

-----------------------------------------------------------------------------
(* The state machine *)

NoIntent == [k \in {} |-> None]

\* an external call as issued; state becomes ok or raised when it ends
Call(svc, f, top_k) == [svc |-> svc, filter |-> f, top_k |-> top_k, state |-> "pending"]

\* the next call issued while the last one is still in flight
Complete_leaves_pending(cs, out) == cs

\* the pending call (the last one issued) ends with the outcome out
Complete(cs, out) ==
    [cs EXCEPT ![Len(cs)].state = IF out.raises THEN "raised" ELSE "ok"]

NoOutcome == [raises |-> FALSE]

\* the user sessions the host process serves
NumSessions == 2
Sessions == 1..NumSessions

\* line 27: a new ConversationBufferMemory holds no message
NoMessages == <<>>

\* no operation has run on the orchestrator
NoPrev(mem) == [op |-> "none", uncaught |-> FALSE, memory |-> mem]

\* a cached resource: absent, or the value the function returned (0: None)
Uncached == [hit |-> FALSE, value |-> 0]
Cached(v) == [hit |-> TRUE, value |-> v]
NoCache == [chatbot |-> Uncached, vector_store |-> Uncached]

Init ==
    /\ op = "none"
    /\ pc = "idle"
    /\ msg = <<>>
    /\ intent = NoIntent
    /\ path = "none"
    /\ searchOp = "none"
    /\ filter = None
    /\ query = None
    /\ topK = 0
    /\ products = <<>>
    /\ response = <<>>
    /\ outcome = "pending"
    /\ uncaught = FALSE
    /\ calls = <<>>
    /\ ext = NoOutcome
    /\ index \in {EmptyIndex, FullIndex, ForeignIndex}
    /\ catalog = PRODUCTS
    /\ vectors = <<>>
    /\ offset = 0
    /\ upserts = <<>>
    /\ failedEmb = {}
    /\ before = EmptyIndex
    /\ runs = 0
    /\ result = <<>>
    /\ arg = NoIntent
    /\ memory = <<NoMessages>>
    /\ prev = NoPrev(memory)
    /\ cache = NoCache
    /\ bots = [s \in Sessions |-> 0]
    /\ messages = [s \in Sessions |-> <<>>]
    /\ who = 0
    /\ hosted = TRUE
    /\ stores = 1
    /\ creates = <<>>

Ready == pc \in {"idle", "done"}

\* the orchestrator as an operation finds it: what ran last, whether that was
\* a chat that failed, and the stored messages
Snapshot == [op |-> op, uncaught |-> uncaught, memory |-> memory]

\* the failure of the previous operation still flagged
Begin_keeps_uncaught(name, m) ==
    /\ Ready
    /\ op' = name
    /\ msg' = m
    /\ uncaught' = uncaught
    /\ ext' = NoOutcome
    /\ UNCHANGED <<index, appVars, memory, cache, bots>>

\* a public operation begins: the locals of the previous one are gone
Begin(name, m) ==
    /\ Ready
    /\ op' = name
    /\ msg' = m
    /\ uncaught' = FALSE
    /\ ext' = NoOutcome
    /\ UNCHANGED <<index, appVars, memory, cache, bots>>

\* the operation in progress returns to its caller
Return ==
    /\ pc' = "done"
    /\ outcome' = "returned"

\* lines 127-131 of search_products: the embedding call is issued
EnterSearch(call, issued) ==
    /\ stores > 0
    /\ searchOp' = call.method
    /\ filter' = call.filter
    /\ query' = call.query
    /\ topK' = call.top_k
    /\ pc' = "embed"
    /\ calls' = Append(issued, Call("embedding", None, 0))

\* lines 50-60
generate_embedding(api) == IF api.raises THEN <<>> ELSE api.embedding

\* the empty vector not checked for
no_signal_unchecked(query_embedding) == FALSE

\* line 130: `if not query_embedding`
no_signal(query_embedding) == query_embedding = <<>>

\* the products converted before the first failing match are returned
search_results_keeps_converted(res) ==
    IF res.raises THEN <<>>
    ELSE LET bad == {i \in 1..Len(res.matches) : ~Convertible(res.matches[i])}
             n == IF bad = {} THEN Len(res.matches)
                  ELSE (CHOOSE i \in bad : \A j \in bad : i <= j) - 1
         IN format_results(SubSeq(res.matches, 1, n))

\* lines 134-163: the list search_products returns after the index call; an
\* exception of the query or of a conversion ends in `return []`
search_results(res) ==
    IF res.raises \/ \E i \in 1..Len(res.matches) : ~Convertible(res.matches[i])
    THEN <<>>
    ELSE format_results(res.matches)

\* chat composing whatever the search returned
AfterSearch_always_composes(ps, issued) ==
    /\ products' = ps
    /\ IF op = "chat"
       THEN /\ pc' = "llm_compose"
            /\ calls' = Append(issued, Call("llm_compose", None, 0))
            /\ UNCHANGED <<response, outcome>>
       ELSE /\ calls' = issued
            /\ UNCHANGED response
            /\ Return

\* chat treating an empty retrieval as an error
AfterSearch_apologizes_when_empty(ps, issued) ==
    /\ products' = ps
    /\ IF op = "chat"
       THEN IF ps # <<>>
            THEN /\ pc' = "llm_compose"
                 /\ calls' = Append(issued, Call("llm_compose", None, 0))
                 /\ UNCHANGED <<response, outcome>>
            ELSE /\ response' = APOLOGY
                 /\ calls' = issued
                 /\ Return
       ELSE /\ calls' = issued
            /\ UNCHANGED response
            /\ Return

\* lines 249-255 of chat (and the return of a direct search): after retrieval
AfterSearch(ps, issued) ==
    /\ products' = ps
    /\ IF op = "chat"
       THEN IF ps # <<>>
            THEN /\ pc' = "llm_compose"
                 /\ calls' = Append(issued, Call("llm_compose", None, 0))
                 /\ UNCHANGED <<response, outcome>>
            ELSE /\ response' = CLARIFICATION
                 /\ calls' = issued
                 /\ Return
       ELSE /\ calls' = issued
            /\ UNCHANGED response
            /\ Return

\* chat(user_message), lines 223-225: up to the intent call
Chat(m) ==
    /\ Begin("chat", m)
    /\ outcome' = "pending"
    /\ pc' = "llm_intent"
    /\ calls' = <<Call("llm_intent", None, 0)>>
    /\ intent' = NoIntent
    /\ path' = "none"
    /\ searchOp' = "none"
    /\ filter' = None
    /\ query' = None
    /\ topK' = 0
    /\ products' = <<>>
    /\ response' = <<>>

\* _extract_search_intent(user_message) called on its own
ExtractIntent(m) ==
    /\ Begin("extract_intent", m)
    /\ UNCHANGED <<messages, who, prev>>
    /\ outcome' = "pending"
    /\ pc' = "llm_intent"
    /\ calls' = <<Call("llm_intent", None, 0)>>
    /\ intent' = NoIntent
    /\ path' = "none"
    /\ searchOp' = "none"
    /\ filter' = None
    /\ query' = None
    /\ topK' = 0
    /\ products' = <<>>
    /\ response' = <<>>

\* the intent call ends; chat goes on to choose its search (lines 95-109, 227-247)
IntentLlm(llm) ==
    /\ pc = "llm_intent"
    /\ intent' = extract_search_intent(msg, llm)
    /\ path' = IntentPath(llm)
    /\ ext' = llm
    /\ UNCHANGED <<op, msg, products, index, appVars, sessVars>>
    /\ IF op = "chat"
       THEN LET sel == chat_search(intent')
            IN IF sel.raises
               THEN /\ uncaught' = TRUE
                    /\ outcome' = chat_except.outcome
                    /\ response' = chat_except.response
                    /\ pc' = "done"
                    /\ calls' = Complete(calls, llm)
                    /\ UNCHANGED <<searchOp, filter, query, topK>>
               ELSE /\ EnterSearch(sel.call, Complete(calls, llm))
                    /\ UNCHANGED <<response, outcome, uncaught>>
       ELSE /\ Return
            /\ calls' = Complete(calls, llm)
            /\ UNCHANGED <<searchOp, filter, query, topK, response, uncaught>>

\* a public search method called on its own
Search(call) ==
    /\ Begin("search", <<>>)
    /\ UNCHANGED <<messages, who, prev>>
    /\ outcome' = "pending"
    /\ EnterSearch(call, <<>>)
    /\ intent' = NoIntent
    /\ path' = "none"
    /\ products' = <<>>
    /\ response' = <<>>

\* the embedding call ends (lines 128-140)
Embed(api) ==
    /\ pc = "embed"
    /\ ext' = api
    /\ UNCHANGED <<op, msg, intent, path, searchOp, filter, query, topK, uncaught, index,
                   appVars, sessVars>>
    /\ IF no_signal(generate_embedding(api))
       THEN AfterSearch(<<>>, Complete(calls, api))
       ELSE /\ pc' = "query"
            /\ calls' = Append(Complete(calls, api), Call("index_query", filter, topK))
            /\ UNCHANGED <<products, response, outcome>>

\* the index query ends (lines 134-163)
Query(res) ==
    /\ pc = "query"
    /\ ext' = res
    /\ UNCHANGED <<op, msg, intent, path, searchOp, filter, query, topK, uncaught, index,
                   appVars, sessVars>>
    /\ AfterSearch(search_results(res), Complete(calls, res))

\* _generate_contextual_response(user_message, products) called on its own
Contextual(m, ps) ==
    /\ Begin("contextual", m)
    /\ UNCHANGED <<messages, who, prev>>
    /\ intent' = NoIntent
    /\ path' = "none"
    /\ searchOp' = "none"
    /\ filter' = None
    /\ query' = None
    /\ topK' = 0
    /\ products' = ps
    /\ IF ps = <<>>
       THEN /\ response' = NOT_FOUND
            /\ calls' = <<>>
            /\ Return
       ELSE /\ response' = <<>>
            /\ calls' = <<Call("llm_compose", None, 0)>>
            /\ pc' = "llm_compose"
            /\ outcome' = "pending"

\* the turn stored in the memory once the reply is composed
Compose_saves_turn(llm) ==
    /\ pc = "llm_compose"
    /\ response' = contextual_reply(products, llm)
    /\ Return
    /\ calls' = Complete(calls, llm)
    /\ ext' = llm
    /\ memory' = [i \in DOMAIN memory |->
                     memory[i] \o <<[type |-> "human", content |-> msg],
                                     [type |-> "ai", content |-> response']>>]
    /\ UNCHANGED <<op, msg, intent, path, searchOp, filter, query, topK, products,
                   uncaught, index, appVars, prev, cache, bots, messages, who>>

\* the composition call ends (lines 206-211)
Compose(llm) ==
    /\ pc = "llm_compose"
    /\ response' = contextual_reply(products, llm)
    /\ Return
    /\ calls' = Complete(calls, llm)
    /\ ext' = llm
    /\ UNCHANGED <<op, msg, intent, path, searchOp, filter, query, topK, products,
                   uncaught, index, appVars, sessVars>>

\* _format_product_recommendations(products) called on its own
Format(ps) ==
    /\ Begin("format", <<>>)
    /\ UNCHANGED <<messages, who, prev>>
    /\ intent' = NoIntent
    /\ path' = "none"
    /\ searchOp' = "none"
    /\ filter' = None
    /\ query' = None
    /\ topK' = 0
    /\ products' = ps
    /\ calls' = <<>>
    /\ response' = format_product_recommendations(ps)
    /\ Return

Next ==
    \/ \E m \in Messages : Chat(m) /\ UNCHANGED <<messages, who, prev>>
    \/ \E m \in Messages : ExtractIntent(m)
    \/ \E llm \in IntentOutcomes : IntentLlm(llm)
    \/ \E call \in DirectSearches : Search(call)
    \/ \E api \in EmbeddingOutcomes(query) : Embed(api)
    \/ \E res \in IndexOutcomes(index, filter, topK) : Query(res)
    \/ \E m \in Messages, ps \in ProductLists : Contextual(m, ps)
    \/ \E llm \in ComposeOutcomes : Compose(llm)
    \/ \E ps \in ProductLists : Format(ps)

Spec == Init /\ [][Next]_vars

-----------------------------------------------------------------------------
(* Index population (utils/vector_store.py, populate_index) *)

\* line 108
BatchSize == 100

\* the largest catalog explored
MaxCatalog == 250

\* the populate_index runs explored on one index
MaxRuns == 2

\* a catalog of n products: those of PRODUCTS, repeated under ids and names of
\* their own
Synthetic(n) ==
    [i \in 1..n |-> [PRODUCTS[((i - 1) % Len(PRODUCTS)) + 1]
                         EXCEPT !.id = <<@, i>>, !.name = <<@, i>>]]

\* the catalogs explored: the shipped one, and sizes around the batch size
Catalogs ==
    {PRODUCTS} \cup {Synthetic(n) : n \in {0, 1, BatchSize, BatchSize + 1, MaxCatalog}}

\* the sets of catalog positions whose embedding call may fail in one run
FailurePatterns(n) ==
    {{}, 1..n, {i \in 1..n : i = 1}, {i \in 1..n : i % 2 = 0}}

\* the outcome of embeddings.create for position i of the catalog
EmbeddingAt(i, failed) ==
    IF i \in failed THEN [raises |-> TRUE, embedding |-> <<>>]
    ELSE [raises |-> FALSE, embedding |-> [d \in 1..EmbDim |-> 1]]

\* the record keyed by another field than the id
vector_of_keyed_by_name(product, embedding) ==
    <<product.name, embedding, metadata_of(product)>>

\* line 105: (id, embedding, metadata)
vector_of(product, embedding) ==
    <<product.id, embedding, metadata_of(product)>>

\* lines 83-105: the vectors of the products whose embedding is not empty, in
\* catalog order
populate_vectors(cat, failed) ==
    LET embedded(i) == generate_embedding(EmbeddingAt(i, failed)) # <<>>
        kept == SelectSeq([i \in 1..Len(cat) |-> i], embedded)
    IN [j \in 1..Len(kept) |->
           vector_of(cat[kept[j]], generate_embedding(EmbeddingAt(kept[j], failed)))]

\* line 110: vectors[i:i + batch_size]
batch_at(vs, i) ==
    SubSeq(vs, i + 1, IF i + BatchSize < Len(vs) THEN i + BatchSize ELSE Len(vs))

\* the ids of a batch, in order
Keys(batch) == [j \in 1..Len(batch) |-> batch[j][1]]

\* an upsert call as issued
UpsertCall(batch) == [keys |-> Keys(batch), state |-> "pending"]

\* the index after the service applied an upsert: a record replaces the one
\* stored under its id
Upserted(idx, batch) ==
    LET keys == {batch[j][1] : j \in 1..Len(batch)}
        last(k) == CHOOSE j \in 1..Len(batch) :
                      batch[j][1] = k /\ \A h \in 1..Len(batch) : batch[h][1] = k => h <= j
    IN [k \in DOMAIN idx \cup keys |->
           IF k \in keys THEN batch[last(k)][3] ELSE idx[k]]

\* outcomes of index.upsert
UpsertOutcomes == {[raises |-> TRUE], [raises |-> FALSE]}

\* populate_index(), lines 81-111: the vectors are built and the first batch
\* is sent
Populate(failed) ==
    /\ Ready
    /\ stores > 0
    /\ runs < MaxRuns
    /\ runs' = runs + 1
    /\ failedEmb' = failed
    /\ before' = index
    /\ op' = "populate_index"
    /\ vectors' = populate_vectors(catalog, failed)
    /\ offset' = 0
    /\ IF vectors' # <<>>
       THEN /\ upserts' = <<UpsertCall(batch_at(vectors', 0))>>
            /\ pc' = "upsert"
            /\ outcome' = "pending"
       ELSE /\ upserts' = <<>>
            /\ Return
    /\ result' = <<>>
    /\ arg' = NoIntent
    /\ UNCHANGED <<index, catalog, chatVars, adapterVars>>

\* the loop stopping after the first batch
next_batch_none(vs, i) == FALSE

\* line 109: range(0, len(vectors), batch_size) has a next start
next_batch(vs, i) == i + BatchSize < Len(vs)

\* the batches already sent undone when a call raises
failed_upsert_rolls_back(idx, start) == start

\* line 111 raising: the call stores nothing and nothing is undone
failed_upsert(idx, start) == idx

\* an upsert call ends (lines 109-113): an exception leaves populate_index,
\* else the next batch is sent or the run is over
Upsert(res) ==
    /\ pc = "upsert"
    /\ UNCHANGED <<op, vectors, catalog, failedEmb, before, runs, result, arg, chatVars,
                   adapterVars>>
    /\ IF res.raises
       THEN /\ upserts' = Complete(upserts, res)
            /\ outcome' = "raised"
            /\ pc' = "done"
            /\ index' = failed_upsert(index, before)
            /\ UNCHANGED offset
       ELSE /\ index' = Upserted(index, batch_at(vectors, offset))
            /\ IF next_batch(vectors, offset)
               THEN /\ offset' = offset + BatchSize
                    /\ upserts' = Append(Complete(upserts, res),
                                         UpsertCall(batch_at(vectors, offset')))
                    /\ UNCHANGED <<pc, outcome>>
               ELSE /\ upserts' = Complete(upserts, res)
                    /\ UNCHANGED offset
                    /\ Return

\* outcomes of index.describe_index_stats
StatsOutcomes(idx) ==
    {[raises |-> TRUE],
     [raises |-> FALSE, total_vector_count |-> Cardinality(DOMAIN idx),
      dimension |-> EmbDim, index_fullness |-> 0]}

\* lines 187-196: the mapping returned
index_stats(res) ==
    IF res.raises THEN <<>>
    ELSE [total_vector_count |-> res.total_vector_count,
          dimension |-> res.dimension,
          index_fullness |-> res.index_fullness]

\* get_index_stats()
Stats(res) ==
    /\ Ready
    /\ stores > 0
    /\ op' = "get_index_stats"
    /\ result' = index_stats(res)
    /\ arg' = NoIntent
    /\ Return
    /\ UNCHANGED <<index, catalog, populateVars, chatVars, adapterVars>>

(* Construction of the adapter (utils/vector_store.py, lines 32-48) *)

\* the adapters constructed in one process
MaxAdapters == 2

\* outcomes of pc.list_indexes: the index is listed when it exists
ListOutcomes(exists) ==
    {[raises |-> TRUE, listed |-> FALSE], [raises |-> FALSE, listed |-> exists]}

\* outcomes of pc.create_index: the service refuses a second index of the name
CreateOutcomes(exists) ==
    IF exists THEN {[raises |-> TRUE]} ELSE {[raises |-> TRUE], [raises |-> FALSE]}

\* the index created without a look at the list
create_needed_always(listed) == TRUE

\* line 40: the index name is not among the listed indexes
create_needed(listed) == ~listed

\* what the construction of an adapter leaves alone
constructFrame ==
    <<msg, intent, path, searchOp, filter, query, topK, products, response, uncaught,
      ext, index, catalog, populateVars, result, arg, sessVars>>

\* ProductVectorStore(): up to the call of list_indexes (lines 15-40)
Construct ==
    /\ Ready
    /\ stores < MaxAdapters
    /\ Len(creates) < MaxAdapters
    /\ op' = "construct"
    /\ pc' = "list_indexes"
    /\ outcome' = "pending"
    /\ calls' = <<Call("list_indexes", None, 0)>>
    /\ UNCHANGED <<adapterVars, constructFrame>>

\* list_indexes ends (lines 40-48): the index is created if missing, else the
\* adapter is ready; an exception leaves the constructor
ListIndexes(res) ==
    /\ pc = "list_indexes"
    /\ UNCHANGED <<op, hosted, constructFrame>>
    /\ IF res.raises
       THEN /\ calls' = Complete(calls, res)
            /\ outcome' = "raised"
            /\ pc' = "done"
            /\ UNCHANGED <<stores, creates>>
       ELSE IF create_needed(res.listed)
            THEN /\ calls' = Append(Complete(calls, res), Call("create_index", None, 0))
                 /\ creates' = Append(creates, "pending")
                 /\ pc' = "create_index"
                 /\ UNCHANGED <<stores, outcome>>
            ELSE /\ calls' = Complete(calls, res)
                 /\ stores' = stores + 1
                 /\ Return
                 /\ UNCHANGED creates

\* create_index ends (lines 41-48)
CreateIndex(res) ==
    /\ pc = "create_index"
    /\ calls' = Complete(calls, res)
    /\ UNCHANGED <<op, constructFrame>>
    /\ IF res.raises
       THEN /\ creates' = [creates EXCEPT ![Len(creates)] = "raised"]
            /\ outcome' = "raised"
            /\ pc' = "done"
            /\ UNCHANGED <<hosted, stores>>
       ELSE /\ creates' = [creates EXCEPT ![Len(creates)] = "ok"]
            /\ hosted' = TRUE
            /\ stores' = stores + 1
            /\ Return

\* the process starts: no adapter, the index may or may not exist
AdapterInit ==
    /\ op = "none"
    /\ pc = "idle"
    /\ msg = <<>>
    /\ intent = NoIntent
    /\ path = "none"
    /\ searchOp = "none"
    /\ filter = None
    /\ query = None
    /\ topK = 0
    /\ products = <<>>
    /\ response = <<>>
    /\ outcome = "pending"
    /\ uncaught = FALSE
    /\ calls = <<>>
    /\ ext = NoOutcome
    /\ catalog = PRODUCTS
    /\ vectors = <<>>
    /\ offset = 0
    /\ upserts = <<>>
    /\ failedEmb = {}
    /\ before = EmptyIndex
    /\ runs = 0
    /\ result = <<>>
    /\ arg = NoIntent
    /\ memory = <<NoMessages>>
    /\ prev = NoPrev(memory)
    /\ cache = NoCache
    /\ bots = [s \in Sessions |-> 0]
    /\ messages = [s \in Sessions |-> <<>>]
    /\ who = 0
    /\ hosted \in BOOLEAN
    /\ index = IF hosted THEN FullIndex ELSE EmptyIndex
    /\ stores = 0
    /\ creates = <<>>

AdapterNext ==
    \/ Construct
    \/ \E res \in ListOutcomes(hosted) : ListIndexes(res)
    \/ \E res \in CreateOutcomes(hosted) : CreateIndex(res)
    \/ Populate({})
    \/ \E res \in UpsertOutcomes : Upsert(res)
    \/ \E res \in StatsOutcomes(index) : Stats(res)
    \/ Search(SearchCall("search_products", S("cheap"), SmallTopK, None))
    \/ \E api \in EmbeddingOutcomes(query) : Embed(api)
    \/ \E res \in IndexOutcomes(index, filter, topK) : Query(res)

AdapterSpec == AdapterInit /\ [][AdapterNext]_vars

(* Catalog accessors (data/products.py) *)

\* float('inf')
Infinity == [ty |-> "inf"]

\* lines 242-246
get_products_by_category(cat, category) ==
    IF Truthy(category)
    THEN LET keep(product) == S(product.category) = category
         IN SelectSeq(cat, keep)
    ELSE cat

\* lines 248-253
get_product_by_id(cat, product_id) ==
    LET at == {i \in 1..Len(cat) : cat[i].id = product_id}
    IN IF at = {} THEN None
       ELSE cat[CHOOSE i \in at : \A j \in at : i <= j]

\* the upper end excluded
get_products_by_price_range_below_max(cat, min_price, max_price) ==
    LET keep(product) ==
            /\ min_price.n <= product.price
            /\ (max_price.ty = "inf" \/ product.price < max_price.n)
    IN SelectSeq(cat, keep)

\* lines 255-257: min_price <= product["price"] <= max_price
get_products_by_price_range(cat, min_price, max_price) ==
    LET keep(product) ==
            /\ min_price.n <= product.price
            /\ (max_price.ty = "inf" \/ product.price <= max_price.n)
    IN SelectSeq(cat, keep)

\* lines 259-261
get_products_by_brand(cat, brand) ==
    LET keep(product) == Lower(product.brand) = Lower(brand)
    IN SelectSeq(cat, keep)

\* the categories asked for: omitted, empty, of the catalog, in another case, unknown
CategoryInputs == {None, Str(<<>>), S("phone"), S("tablet"), S("Phone"), S("camera")}

\* an id no product has
NoSuchId(cat) == IF cat = PRODUCTS THEN "phone_999" ELSE <<"phone_999", 0>>

\* the ids asked for: those of the catalog and an unknown one
IdInputs(cat) == {cat[i].id : i \in 1..Len(cat)} \cup {NoSuchId(cat)}

\* the ranges asked for: the defaults, one default, ends on prices, an empty range
PriceInputs ==
    {<<Num(0), Infinity>>, <<Num(1000), Infinity>>, <<Num(0), Num(999)>>,
     <<Num(999), Num(1299)>>, <<Num(149), Num(149)>>, <<Num(1300), Num(1200)>>,
     <<Num(150), Num(698)>>, <<Num(2000), Infinity>>, <<Num(0), Num(148)>>}

BrandInputs == {"Apple", "apple", "APPLE", "SAMSUNG", "Amazon", "sony"}

\* an accessor is called and returns
Accessor(name, args, value) ==
    /\ Ready
    /\ op' = name
    /\ arg' = args
    /\ result' = value
    /\ Return
    /\ UNCHANGED <<index, catalog, populateVars, chatVars, adapterVars>>

ByCategory(category) ==
    Accessor("get_products_by_category", [category |-> category],
             get_products_by_category(catalog, category))

ById(product_id) ==
    Accessor("get_product_by_id", [product_id |-> product_id],
             get_product_by_id(catalog, product_id))

ByPriceRange(min_price, max_price) ==
    Accessor("get_products_by_price_range",
             [min_price |-> min_price, max_price |-> max_price],
             get_products_by_price_range(catalog, min_price, max_price))

ByBrand(brand) ==
    Accessor("get_products_by_brand", [brand |-> brand],
             get_products_by_brand(catalog, brand))

\* the largest synthetic catalog the accessors are applied to
MaxListed == 13

\* the catalogs the accessors are applied to
ListedCatalogs == {PRODUCTS} \cup {Synthetic(n) : n \in {0, 1, MaxListed}}

\* the index as an earlier version of the catalog left it: every price was 0
StaleIndex(cat) ==
    [id \in {cat[i].id : i \in 1..Len(cat)} |->
        [metadata_of(cat[CHOOSE i \in 1..Len(cat) : cat[i].id = id]) EXCEPT !.price = 0]]

AppInit ==
    /\ op = "none"
    /\ pc = "idle"
    /\ msg = <<>>
    /\ intent = NoIntent
    /\ path = "none"
    /\ searchOp = "none"
    /\ filter = None
    /\ query = None
    /\ topK = 0
    /\ products = <<>>
    /\ response = <<>>
    /\ outcome = "pending"
    /\ uncaught = FALSE
    /\ calls = <<>>
    /\ ext = NoOutcome
    /\ catalog \in Catalogs
    /\ index \in {EmptyIndex, StaleIndex(catalog)}
    /\ vectors = <<>>
    /\ offset = 0
    /\ upserts = <<>>
    /\ failedEmb = {}
    /\ before = EmptyIndex
    /\ runs = 0
    /\ result = <<>>
    /\ arg = NoIntent
    /\ memory = <<NoMessages>>
    /\ prev = NoPrev(memory)
    /\ cache = NoCache
    /\ bots = [s \in Sessions |-> 0]
    /\ messages = [s \in Sessions |-> <<>>]
    /\ who = 0
    /\ hosted = TRUE
    /\ stores = 1
    /\ creates = <<>>

AppNext ==
    \/ \E failed \in FailurePatterns(Len(catalog)) : Populate(failed)
    \/ \E res \in UpsertOutcomes : Upsert(res)
    \/ \E res \in StatsOutcomes(index) : Stats(res)

\* the administrative operations, over catalogs of several sizes
AppSpec == AppInit /\ [][AppNext]_vars

CatalogInit ==
    /\ op = "none"
    /\ pc = "idle"
    /\ msg = <<>>
    /\ intent = NoIntent
    /\ path = "none"
    /\ searchOp = "none"
    /\ filter = None
    /\ query = None
    /\ topK = 0
    /\ products = <<>>
    /\ response = <<>>
    /\ outcome = "pending"
    /\ uncaught = FALSE
    /\ calls = <<>>
    /\ ext = NoOutcome
    /\ index = EmptyIndex
    /\ catalog \in ListedCatalogs
    /\ vectors = <<>>
    /\ offset = 0
    /\ upserts = <<>>
    /\ failedEmb = {}
    /\ before = EmptyIndex
    /\ runs = 0
    /\ result = <<>>
    /\ arg = NoIntent
    /\ memory = <<NoMessages>>
    /\ prev = NoPrev(memory)
    /\ cache = NoCache
    /\ bots = [s \in Sessions |-> 0]
    /\ messages = [s \in Sessions |-> <<>>]
    /\ who = 0
    /\ hosted = TRUE
    /\ stores = 1
    /\ creates = <<>>

CatalogNext ==
    \/ \E category \in CategoryInputs : ByCategory(category)
    \/ \E product_id \in IdInputs(catalog) : ById(product_id)
    \/ \E range \in PriceInputs : ByPriceRange(range[1], range[2])
    \/ \E brand \in BrandInputs : ByBrand(brand)

CatalogSpec == CatalogInit /\ [][CatalogNext]_vars

-----------------------------------------------------------------------------
(* Conversation memory (utils/chatbot.py, lines 26-30 and 261-267) *)

\* the stored turns explored on one orchestrator
MaxTurns == 2

\* a stored message of the memory
HumanMessage(content) == [type |-> "human", content |-> content]
AIMessage(content) == [type |-> "ai", content |-> content]

\* clear() dropping all but the oldest message
clear_keeps_first(stored) == IF stored = <<>> THEN <<>> ELSE <<Head(stored)>>

\* line 267: self.memory.clear() leaves no message
clear(stored) == <<>>

\* line 263: self.memory.chat_memory.messages
get_chat_history(stored) == stored

\* the chat locals an operation on the memory does not touch
chatLocals == <<msg, intent, path, searchOp, filter, query, topK, products, response,
                uncaught, calls, ext>>

\* clear_memory() on orchestrator i
ClearMemory(i) ==
    /\ Ready
    /\ i \in 1..Len(memory)
    /\ op' = "clear_memory"
    /\ memory' = [memory EXCEPT ![i] = clear(@)]
    /\ Return
    /\ UNCHANGED <<index, appVars, cache, bots, chatLocals>>

\* get_chat_history() on orchestrator i
GetChatHistory(i) ==
    /\ Ready
    /\ i \in 1..Len(memory)
    /\ op' = "get_chat_history"
    /\ result' = get_chat_history(memory[i])
    /\ Return
    /\ UNCHANGED <<index, catalog, populateVars, arg, memory, cache, bots, chatLocals,
                   adapterVars>>

\* a caller stores a turn through the memory object the orchestrator exposes
\* (save_context of the memory of line 27); no code of the repository does
SaveContext(i, m, reply) ==
    /\ Ready
    /\ i \in 1..Len(memory)
    /\ Len(memory[i]) < 2 * MaxTurns
    /\ op' = "save_context"
    /\ memory' = [memory EXCEPT ![i] = @ \o <<HumanMessage(m), AIMessage(reply)>>]
    /\ Return
    /\ UNCHANGED <<index, appVars, cache, bots, chatLocals>>

\* a public operation of the orchestrator is called: its state on entry is recorded
Entered == prev' = Snapshot /\ UNCHANGED <<messages, who>>

\* the messages and intent replies of the turns explored with a memory
TurnMessages == {Words(<<"android", "tablet">>)}

TurnIntentOutcomes ==
    {LlmRaises,
     LlmReturns(Obj(<<>>)),
     LlmReturns(FullObj(None, None, None, S("Apple"), S("phone")))}

MemoryInit == Init /\ index = FullIndex

MemoryNext ==
    \/ \E m \in TurnMessages : Chat(m) /\ Entered
    \/ \E llm \in TurnIntentOutcomes : IntentLlm(llm)
    \/ \E api \in EmbeddingOutcomes(query) : Embed(api)
    \/ \E res \in IndexOutcomes(index, filter, topK) : Query(res)
    \/ \E llm \in ComposeOutcomes : Compose(llm)
    \/ ClearMemory(1) /\ Entered
    \/ GetChatHistory(1) /\ Entered
    \/ \E m \in TurnMessages : SaveContext(1, m, CLARIFICATION) /\ Entered

MemorySpec == MemoryInit /\ [][MemoryNext]_vars

\* the orchestrator under the calls the repository itself makes: chat,
\* clear_memory and get_chat_history
TurnsNext ==
    \/ \E m \in TurnMessages : Chat(m) /\ Entered
    \/ \E llm \in TurnIntentOutcomes : IntentLlm(llm)
    \/ \E api \in EmbeddingOutcomes(query) : Embed(api)
    \/ \E res \in IndexOutcomes(index, filter, topK) : Query(res)
    \/ \E llm \in ComposeOutcomes : Compose(llm)
    \/ ClearMemory(1) /\ Entered
    \/ GetChatHistory(1) /\ Entered

TurnsSpec == MemoryInit /\ [][TurnsNext]_vars

-----------------------------------------------------------------------------
(* User sessions of the web application (app.py) *)

\* the turns one session keeps on display
MaxShown == 1

\* outcomes of the two constructors a script run may call
ConstructOutcomes ==
    {[chatbot_raises |-> b, store_raises |-> v] : b \in BOOLEAN, v \in BOOLEAN}

\* lines 174-181 under st.cache_resource: the cached value, or the value of the
\* first call, which is cached; fresh is the orchestrator a first call constructs
initialize_chatbot(cached, raises, fresh) ==
    IF cached.hit THEN cached
    ELSE IF raises THEN Cached(0) ELSE Cached(fresh)

\* lines 183-191 under st.cache_resource (1: the vector store constructed)
initialize_vector_store(cached, raises) ==
    IF cached.hit THEN cached
    ELSE IF raises THEN Cached(0) ELSE Cached(1)

\* a script run of session s up to the chat interface (lines 255-261, 311-313)
Load(s, res) ==
    LET fresh == Len(memory) + 1
        chatbot == initialize_chatbot(cache.chatbot, res.chatbot_raises, fresh)
        vector_store == initialize_vector_store(cache.vector_store, res.store_raises)
    IN /\ who # s
       /\ fresh <= NumSessions
       /\ cache' = [chatbot |-> chatbot, vector_store |-> vector_store]
       /\ memory' = IF chatbot.value = fresh THEN Append(memory, NoMessages) ELSE memory
       /\ bots' = [bots EXCEPT ![s] =
                      IF chatbot.value = 0 \/ vector_store.value = 0 THEN 0
                      ELSE chatbot.value]
       /\ UNCHANGED <<op, pc, outcome, index, appVars, prev, messages, who, chatLocals>>

\* lines 316-330: a prompt entered in session s, up to the call of chat
Prompt(s, m) ==
    /\ who = 0
    /\ bots[s] # 0
    /\ Len(messages[s]) < 2 * MaxShown
    /\ Chat(m)
    /\ prev' = Snapshot
    /\ who' = s
    /\ messages' = [messages EXCEPT ![s] = Append(@, [role |-> "user", content |-> m])]

\* lines 331-333: chat has returned, the reply joins the session's messages
Reply(s) ==
    /\ who = s
    /\ op = "chat"
    /\ pc = "done"
    /\ messages' = [messages EXCEPT ![s] =
                       Append(@, [role |-> "assistant", content |-> response])]
    /\ who' = 0
    /\ UNCHANGED <<op, pc, outcome, index, appVars, memory, prev, cache, bots, chatLocals>>

\* lines 281-286: the Clear Chat History button of session s
ClearChatHistory(s) ==
    /\ who = 0
    /\ bots[s] # 0
    /\ ClearMemory(bots[s])
    /\ prev' = Snapshot
    /\ messages' = [messages EXCEPT ![s] = <<>>]
    /\ UNCHANGED who

\* the host process starts: nothing cached, no orchestrator constructed
SessionInit ==
    /\ op = "none"
    /\ pc = "idle"
    /\ msg = <<>>
    /\ intent = NoIntent
    /\ path = "none"
    /\ searchOp = "none"
    /\ filter = None
    /\ query = None
    /\ topK = 0
    /\ products = <<>>
    /\ response = <<>>
    /\ outcome = "pending"
    /\ uncaught = FALSE
    /\ calls = <<>>
    /\ ext = NoOutcome
    /\ index = FullIndex
    /\ catalog = PRODUCTS
    /\ vectors = <<>>
    /\ offset = 0
    /\ upserts = <<>>
    /\ failedEmb = {}
    /\ before = EmptyIndex
    /\ runs = 0
    /\ result = <<>>
    /\ arg = NoIntent
    /\ memory = <<>>
    /\ prev = NoPrev(memory)
    /\ cache = NoCache
    /\ bots = [s \in Sessions |-> 0]
    /\ messages = [s \in Sessions |-> <<>>]
    /\ who = 0
    /\ hosted = TRUE
    /\ stores = 1
    /\ creates = <<>>

SessionNext ==
    \/ \E s \in Sessions, res \in ConstructOutcomes : Load(s, res)
    \/ \E s \in Sessions, m \in TurnMessages : Prompt(s, m)
    \/ \E llm \in TurnIntentOutcomes : IntentLlm(llm)
    \/ \E api \in EmbeddingOutcomes(query) : Embed(api)
    \/ \E res \in IndexOutcomes(index, filter, topK) : Query(res)
    \/ \E llm \in ComposeOutcomes : Compose(llm)
    \/ \E s \in Sessions : Reply(s)
    \/ \E s \in Sessions : ClearChatHistory(s)

SessionSpec == SessionInit /\ [][SessionNext]_vars

-----------------------------------------------------------------------------
(* Properties *)

Range(seq) == {seq[i] : i \in DOMAIN seq}

\* the positions in the call log of the calls to a service
Issued(svc) == {i \in DOMAIN calls : calls[i].svc = svc}

ChatDone == op = "chat" /\ pc = "done"

Fallback == path \in {"fallback_parse", "fallback_exc"}

\* C1: chat never raises and always ends returning a text; an exception that
\* reaches its handler ends the turn with the fixed apology.
C1_ChatNeverRaises ==
    op = "chat" =>
        /\ outcome \in {"pending", "returned"}
        /\ pc = "done" => outcome = "returned"
        /\ uncaught => pc = "done" /\ outcome = "returned" /\ response = APOLOGY

\* a turn in which an exception reached the handler of chat
C1_Witness == ChatDone /\ uncaught /\ response = APOLOGY /\ outcome = "returned"

\* a field of the intent is set: present and true in Python's sense
IsSet(d, k) == k \in DOMAIN d /\ Truthy(d[k])

\* a field of the intent is present and not None
IsGiven(d, k) == k \in DOMAIN d /\ d[k].ty # "none"

\* the filter the priority category > brand > price range > none selects
PriorityFilter(d) ==
    IF IsSet(d, "category") THEN [category |-> d.category]
    ELSE IF IsSet(d, "brand") THEN [brand |-> d.brand]
    ELSE IF IsGiven(d, "min_price") /\ IsGiven(d, "max_price")
    THEN [price |-> ("$gte" :> d.min_price) @@ ("$lte" :> d.max_price)]
    ELSE None

\* C2: every chat call takes exactly one retrieval path, the one the priority
\* selects for its intent, and issues at most one index query, with that filter.
C2_OneRetrievalPathByPriority ==
    ChatDone =>
        /\ searchOp # "none"
        /\ filter = PriorityFilter(intent)
        /\ Cardinality(Issued("index_query")) <= 1
        /\ \A i \in Issued("index_query") : calls[i].filter = PriorityFilter(intent)

\* the part of C2 the code keeps: on every turn that enters a search method the
\* filter is the one the priority selects, and at most one index query is issued
RetrievalByPriority ==
    (op = "chat" /\ searchOp # "none") =>
        /\ filter = PriorityFilter(intent)
        /\ Cardinality(Issued("index_query")) <= 1
        /\ \A i \in Issued("index_query") : calls[i].filter = PriorityFilter(intent)

\* C3: when retrieval in chat yields no products, chat returns the
\* clarification message with the four clues and calls the language model no
\* more after the intent call.
C3_EmptyRetrievalClarifies ==
    (ChatDone /\ searchOp # "none" /\ products = <<>>) =>
        /\ response = CLARIFICATION
        /\ \A i \in 1..4 : CLUES[i] \in Range(response)
        /\ Issued("llm_compose") = {}
        /\ Issued("llm_intent") = {1}

\* the index answered the query of a turn with no match
C3_Witness ==
    /\ ChatDone /\ searchOp # "none" /\ products = <<>>
    /\ response = CLARIFICATION
    /\ calls[Len(calls)].svc = "index_query"
    /\ calls[Len(calls)].state = "ok"

IntentFields == {"category", "brand", "min_price", "max_price", "search_query"}

\* C4: once the intent call of a turn has ended, however it ended, the intent
\* is complete and chat has gone on to retrieval: the turn is not failed.
C4_IntentNeverFailsTurn ==
    (op = "chat" /\ path # "none") =>
        /\ IntentFields \subseteq DOMAIN intent
        /\ searchOp # "none"
        /\ ~uncaught

\* C5: on the fallback path the category is the one the ordered keyword rules
\* give for the user's message.
C5_FallbackCategoryFromMessage ==
    Fallback => intent.category = keyword_category(msg)

\* C6: on the fallback path search_query is the raw user message, the price
\* bounds and the brand are unset and features is empty.
C6_FallbackQueryIsMessage ==
    Fallback =>
        /\ intent.search_query = Str(msg)
        /\ intent.min_price = None
        /\ intent.max_price = None
        /\ intent.brand = None
        /\ intent.features = List(<<>>)

\* C7: the templated composer answers an empty product list with the
\* clarification message of chat, the four clues included.
C7_EmptyListClarification ==
    (op = "format" /\ pc = "done" /\ products = <<>>) =>
        /\ response = CLARIFICATION
        /\ \A i \in 1..4 : CLUES[i] \in Range(response)

IsEntry(line) == line.fmt = "**{i}. {name}** (${price})"
IsRemainder(line) == line.fmt = "... and {n} more options available."

\* C8: for n > 0 products the templated composer renders min(n, 3) entries,
\* numbered from 1, in the order received, and a remainder line with the count
\* n - 3 exactly when n > 3.
C8_TopThreeAndRemainder ==
    (op = "format" /\ pc = "done" /\ products # <<>>) =>
        LET n == Len(products)
            m == IF n < 3 THEN n ELSE 3
            entries == SelectSeq(response, IsEntry)
            more == SelectSeq(response, IsRemainder)
        IN /\ Len(entries) = m
           /\ \A i \in 1..m :
                 /\ entries[i].i = i
                 /\ entries[i].s = products[i].name
                 /\ entries[i].p = products[i].price
           /\ n > 3 => Len(more) = 1 /\ more[1].i = n - 3
           /\ n <= 3 => more = <<>>

\* five products formatted: three entries and a remainder of two
C8_Witness ==
    /\ op = "format" /\ pc = "done" /\ Len(products) = 5
    /\ Len(SelectSeq(response, IsEntry)) = 3
    /\ \E i \in DOMAIN response : IsRemainder(response[i]) /\ response[i].i = 2

\* C9: with products to present, the conversational composer returns the
\* language model's reply when the call succeeds and the templated listing of
\* the same products when it raises; it does not raise.
C9_ComposerFallsBack ==
    (op \in {"chat", "contextual"} /\ pc = "done" /\ products # <<>>) =>
        /\ outcome = "returned"
        /\ calls[Len(calls)].svc = "llm_compose"
        /\ calls[Len(calls)].state = "raised" =>
              response = format_product_recommendations(products)
        /\ calls[Len(calls)].state = "ok" => response = ext.content

\* the composition call raised and the listing was returned
C9_Witness ==
    /\ op = "contextual" /\ pc = "done" /\ products # <<>>
    /\ calls[Len(calls)].state = "raised"
    /\ response[1] = Lit("Here are some great options for you:")

SearchMethods ==
    {"search_products", "search_by_category", "search_by_brand", "search_by_price_range"}

\* C10: when the embedding call raises, the search method in progress returns
\* an empty list, nothing is raised and no query reaches the index.
C10_NoQueryWithoutEmbedding ==
    \A i \in Issued("embedding") :
        calls[i].state = "raised" =>
            /\ searchOp \in SearchMethods
            /\ products = <<>>
            /\ Issued("index_query") = {}
            /\ outcome # "raised"
            /\ op = "search" => pc = "done" /\ outcome = "returned"

\* a price-range search whose embedding call raised
C10_Witness ==
    /\ searchOp = "search_by_price_range"
    /\ \E i \in Issued("embedding") : calls[i].state = "raised"
    /\ pc = "done" /\ products = <<>>

\* the embedding call of the current operation raised
EmbeddingRaised == \E i \in Issued("embedding") : calls[i].state = "raised"

\* C11 as stated: when the embedding client raises during a turn, chat returns
\* a non-empty text and that text is the generic apology.
C11_EmbeddingFailureApologizes ==
    (ChatDone /\ EmbeddingRaised) =>
        /\ outcome = "returned"
        /\ response # <<>>
        /\ response = APOLOGY

\* C11 amended: when the embedding client raises during a turn, chat does not
\* raise and returns a non-empty text, the clarification message of the
\* no-results case, not the apology.
C11_EmbeddingFailureClarifies ==
    (ChatDone /\ EmbeddingRaised) =>
        /\ outcome = "returned"
        /\ response # <<>>
        /\ response = CLARIFICATION
        /\ response # APOLOGY
        /\ ~uncaught

\* a turn whose embedding call raised, ended
C11_Witness ==
    /\ ChatDone /\ EmbeddingRaised
    /\ response = CLARIFICATION
    /\ calls[Len(calls)].svc = "embedding"

-----------------------------------------------------------------------------
(* Properties of index population (AppSpec) *)

PopulateReturned == op = "populate_index" /\ pc = "done" /\ outcome = "returned"

RECURSIVE SentKeys(_)
\* the ids sent by a sequence of upsert calls, in order
SentKeys(us) == IF us = <<>> THEN <<>> ELSE Head(us).keys \o SentKeys(Tail(us))

\* ceil(n / BatchSize)
BatchCount(n) == (n + BatchSize - 1) \div BatchSize

\* C12: a run of populate_index that returns has sent its n vectors in
\* ceil(n/100) upsert calls, each but the last of 100, the batches being the
\* consecutive pieces of the vector list; while it runs, what was sent is a
\* prefix of the list; no call is issued for n = 0.
C12_BatchesOfAtMost100 ==
    op = "populate_index" =>
        LET n == Len(vectors)
            sent == SentKeys(upserts)
        IN /\ Len(sent) <= n
           /\ sent = SubSeq(Keys(vectors), 1, Len(sent))
           /\ \A b \in 1..Len(upserts) :
                 /\ Len(upserts[b].keys) <= BatchSize
                 /\ Len(upserts[b].keys) >= 1
                 /\ b < Len(upserts) => Len(upserts[b].keys) = BatchSize
           /\ n = 0 => upserts = <<>>
           /\ PopulateReturned =>
                 /\ Len(upserts) = BatchCount(n)
                 /\ sent = Keys(vectors)

\* 250 vectors sent in three calls of 100, 100 and 50
C12_Witness ==
    /\ PopulateReturned
    /\ Len(vectors) = 250
    /\ Len(upserts) = 3
    /\ Len(upserts[1].keys) = 100
    /\ Len(upserts[2].keys) = 100
    /\ Len(upserts[3].keys) = 50

CatalogIds == {catalog[i].id : i \in 1..Len(catalog)}

\* the index holding exactly the records of the whole catalog
WholeCatalogIndex ==
    [id \in CatalogIds |->
        metadata_of(catalog[CHOOSE i \in 1..Len(catalog) : catalog[i].id = id])]

\* C13: every record of the index is stored under the id of its product, the
\* index never holds more records than the catalog has ids, and a run in which
\* every embedding and upsert succeeds leaves exactly the catalog's records,
\* whatever runs came before.
C13_OneRecordPerProductId ==
    /\ \A k \in DOMAIN index : index[k].id = k
    /\ DOMAIN index \subseteq CatalogIds
    /\ Cardinality(DOMAIN index) <= Cardinality(CatalogIds)
    /\ (PopulateReturned /\ failedEmb = {}) => index = WholeCatalogIndex

\* a second complete run over a catalog of more than one batch
C13_Witness ==
    /\ PopulateReturned /\ failedEmb = {}
    /\ runs = 2
    /\ Len(catalog) > BatchSize
    /\ Cardinality(DOMAIN index) = Len(catalog)

\* C14 as stated: after a run of populate_index that returns, the index holds a
\* record for every product of the catalog, embedding failures included.
C14_WholeCatalogIndexed ==
    PopulateReturned => CatalogIds \subseteq DOMAIN index

\* what does hold after a run of populate_index that returns: the index holds
\* the record of every product whose embedding call succeeded in the run, hence
\* of the whole catalog when none failed; a product whose embedding call failed
\* is not sent.
EmbeddedProductsIndexed ==
    PopulateReturned =>
        /\ \A i \in 1..Len(catalog) :
              i \notin failedEmb =>
                  /\ catalog[i].id \in DOMAIN index
                  /\ index[catalog[i].id] = metadata_of(catalog[i])
        /\ \A i \in 1..Len(catalog) :
              i \in failedEmb => catalog[i].id \notin Range(SentKeys(upserts))
        /\ failedEmb = {} => CatalogIds \subseteq DOMAIN index

VectorStoreOps == {"search", "populate_index", "get_index_stats"}

\* C15: no public operation of the vector store ends in an exception, whatever
\* external call of it failed.
C15_NoFailureLeavesVectorStore ==
    op \in VectorStoreOps => outcome # "raised"

-----------------------------------------------------------------------------
(* Properties of search_products (Spec) *)

\* the index query of the search in progress has ended and ext is its outcome
QueryEnded ==
    /\ op \in {"search", "chat"}
    /\ \E i \in 1..Len(calls) :
          /\ calls[i].svc = "index_query"
          /\ calls[i].state # "pending"
          /\ \/ i = Len(calls)
             \/ i = Len(calls) - 1 /\ calls[Len(calls)].state = "pending"

\* C16: the list search_products returns after its index query has at most
\* top_k products; it is empty when the query raised or when a match could not
\* be converted, and otherwise it is the matches of the index, converted, in
\* the order of the index; the search itself does not raise.
C16_SearchAllOrNothing ==
    QueryEnded =>
        /\ Len(products) <= topK
        /\ op = "search" => outcome = "returned"
        /\ IF ext.raises \/ \E i \in 1..Len(ext.matches) : ~Convertible(ext.matches[i])
           THEN products = <<>>
           ELSE /\ Len(products) = Len(ext.matches)
                /\ \A i \in 1..Len(products) :
                      /\ products[i].id = ext.matches[i].metadata.id
                      /\ products[i].similarity_score = ext.matches[i].score
                      /\ products[i].specs = json_loads(ext.matches[i].metadata.specs)
                /\ \A i \in 1..Len(products) - 1 :
                      products[i].similarity_score >= products[i + 1].similarity_score

\* a direct search whose first match converts and a later one does not
C16_Witness ==
    /\ QueryEnded
    /\ op = "search"
    /\ ~ext.raises
    /\ Len(ext.matches) >= 2
    /\ Convertible(ext.matches[1])
    /\ \E i \in 2..Len(ext.matches) : ~Convertible(ext.matches[i])
    /\ products = <<>>

-----------------------------------------------------------------------------
(* Properties of the catalog accessors (CatalogSpec) *)

\* the positions of the catalog whose products are the entries of the list, in order
IsSelection(list, at) ==
    /\ Len(list) = Cardinality(at)
    /\ \A i \in at : list[Cardinality({j \in at : j <= i})] = catalog[i]

Positions == 1..Len(catalog)

AccessorOps ==
    {"get_products_by_category", "get_product_by_id", "get_products_by_price_range",
     "get_products_by_brand"}

\* what C17 says of the id, price-range and brand accessors
ExactByIdPriceBrand ==
    /\ op = "get_product_by_id" =>
          /\ \A i \in Positions : arg.product_id = catalog[i].id => result = catalog[i]
          /\ (\A i \in Positions : arg.product_id # catalog[i].id) => result = None
    /\ op = "get_products_by_price_range" =>
          /\ IsSelection(result, {i \in Positions :
                 /\ arg.min_price.n <= catalog[i].price
                 /\ arg.max_price = Infinity \/ catalog[i].price <= arg.max_price.n})
          /\ (arg.min_price = Num(0) /\ arg.max_price = Infinity) => result = catalog
    /\ op = "get_products_by_brand" =>
          /\ IsSelection(result, {i \in Positions : Lower(catalog[i].brand) = Lower(arg.brand)})
          /\ arg.brand \in {"apple", "APPLE"} =>
                 IsSelection(result, {i \in Positions : catalog[i].brand = "Apple"})

\* C17 as stated: each accessor is the exact filter of the catalog, in catalog
\* order: by id the product or not-found, by price range min <= price <= max
\* and the whole catalog without arguments, by brand in any case, by category
\* the products of exactly that category.
C17_AccessorsExactFilters ==
    op \in AccessorOps =>
        /\ ExactByIdPriceBrand
        /\ op = "get_products_by_category" =>
              IsSelection(result, {i \in Positions : S(catalog[i].category) = arg.category})

\* C17 amended: as stated, except that by category the exact filter is
\* returned for a non-empty category, and the whole catalog when the category
\* is omitted or empty.
C17_AccessorsExactFiltersOrAll ==
    op \in AccessorOps =>
        /\ ExactByIdPriceBrand
        /\ op = "get_products_by_category" =>
              IF arg.category = None \/ arg.category = Str(<<>>)
              THEN result = catalog
              ELSE IsSelection(result, {i \in Positions : S(catalog[i].category) = arg.category})

\* the category omitted over the twelve products: all twelve are returned
C17_Witness ==
    /\ op = "get_products_by_category"
    /\ arg.category = None
    /\ catalog = PRODUCTS
    /\ Len(result) = 12

-----------------------------------------------------------------------------
(* Properties of the conversation memory (MemorySpec) *)

\* C18: after clear_memory the orchestrator stores no message and
\* get_chat_history called next returns none, whether the memory held turns or
\* was empty already (also after a clear_memory); clear_memory returns.
C18_ClearMemoryEmptiesAndIsIdempotent ==
    /\ op = "clear_memory" =>
          /\ memory[1] = <<>>
          /\ get_chat_history(memory[1]) = <<>>
          /\ pc = "done" /\ outcome = "returned"
    /\ (op = "get_chat_history" /\ prev.op = "clear_memory") => result = <<>>

\* clear_memory on a memory that held turns
C18_Witness ==
    /\ op = "clear_memory"
    /\ Len(prev.memory[1]) = 2 * MaxTurns
    /\ memory[1] = <<>>

\* C19: a chat call leaves the memory as it found it, and a chat call that
\* follows a failed one starts like any other (no failure flagged, one intent
\* call issued, nothing composed yet) and ends in the apology only for a
\* failure of its own; after a failed turn chat can be called again.
C19_NoStickyFailure ==
    /\ op = "chat" => memory = prev.memory
    /\ (op = "chat" /\ pc = "llm_intent") =>
          /\ ~uncaught
          /\ response = <<>>
          /\ products = <<>>
          /\ calls = <<Call("llm_intent", None, 0)>>
    /\ (op = "chat" /\ pc = "done") => (response = APOLOGY <=> uncaught)
    /\ (op = "chat" /\ pc = "done" /\ uncaught) =>
          \A m \in TurnMessages : ENABLED (Chat(m) /\ Entered)

\* a turn answered from retrieved products right after a failed turn, turns stored
C19_Witness ==
    /\ op = "chat" /\ pc = "done"
    /\ prev.op = "chat" /\ prev.uncaught
    /\ ~uncaught
    /\ products # <<>>
    /\ Issued("llm_compose") # {}
    /\ memory[1] # <<>>
    /\ memory = prev.memory

-----------------------------------------------------------------------------
(* Properties of the user sessions (SessionSpec) *)

\* C20: two sessions that obtained an orchestrator hold different ones, so
\* that the memory one session clears or changes is not the memory of another.
C20_OrchestratorPerSession ==
    \A s, t \in Sessions :
        (s # t /\ bots[s] # 0 /\ bots[t] # 0) => bots[s] # bots[t]

-----------------------------------------------------------------------------
(* Properties of the intents produced (Spec) *)

\* C21: every intent produced has both price bounds or neither.
C21_PriceBoundsBothOrNeither ==
    path # "none" => (IsGiven(intent, "min_price") <=> IsGiven(intent, "max_price"))

\* what holds of the price bounds: the fallback paths set neither, and the
\* price-range search is entered only with both
PriceBoundsWhereChecked ==
    /\ Fallback => ~IsGiven(intent, "min_price") /\ ~IsGiven(intent, "max_price")
    /\ (op = "chat" /\ searchOp = "search_by_price_range") =>
          IsGiven(intent, "min_price") /\ IsGiven(intent, "max_price")

Categories == {S("phone"), S("laptop"), S("tablet")}

\* C22: the category of every intent produced is unset or one of phone, laptop
\* and tablet, and the category search of chat is entered only with one of them.
C22_CategoryUnsetOrEnum ==
    /\ path # "none" => (~IsSet(intent, "category") \/ intent.category \in Categories)
    /\ (op = "chat" /\ searchOp = "search_by_category") => filter.category \in Categories

\* what holds of the category: the fallback paths give None or one of the three
FallbackCategoryEnum ==
    Fallback => (intent.category = None \/ intent.category \in Categories)

\* C23: when the upsert of batch k raises, populate_index ends there: the
\* batches before k are stored, no batch after k is sent, and every other
\* record of the index, those of batch k and later included, is as the run
\* found it.
C23_FailedBatchStopsWithoutRollback ==
    (op = "populate_index" /\ outcome = "raised") =>
        LET k == Len(upserts)
            stored == (k - 1) * BatchSize
            ids == {vectors[j][1] : j \in 1..stored}
        IN /\ pc = "done"
           /\ k >= 1
           /\ upserts[k].state = "raised"
           /\ \A b \in 1..k - 1 : upserts[b].state = "ok"
           /\ SentKeys(upserts) = SubSeq(Keys(vectors), 1, Len(SentKeys(upserts)))
           /\ Len(SentKeys(upserts)) <= k * BatchSize
           /\ \A j \in 1..stored : /\ vectors[j][1] \in DOMAIN index
                                    /\ index[vectors[j][1]] = vectors[j][3]
           /\ DOMAIN index = DOMAIN before \cup ids
           /\ \A id \in DOMAIN before \ ids : index[id] = before[id]

\* the second of three batches raised over a stale index: the first hundred
\* records are new, the others still stale
C23_Witness ==
    /\ op = "populate_index" /\ outcome = "raised"
    /\ Len(vectors) = 250
    /\ Len(upserts) = 2
    /\ before = StaleIndex(catalog)
    /\ index[vectors[1][1]].price # 0
    /\ index[vectors[101][1]].price = 0
    /\ index[vectors[250][1]].price = 0

-----------------------------------------------------------------------------
(* Properties of the construction of the adapter (AdapterSpec) *)

AdapterOps == {"populate_index", "get_index_stats", "search"}

\* C24: create_index is called only after a list_indexes that did not list the
\* index, hence only while the index does not exist: after a create_index
\* that succeeded none is issued again, however many adapters are constructed;
\* and upsert, query and statistics run only on a constructed adapter, whose
\* index exists.
C24_CreateIfMissingOnce ==
    /\ pc = "create_index" => ~hosted
    /\ \A i \in Issued("create_index") :
          /\ i = 2
          /\ calls[1].svc = "list_indexes" /\ calls[1].state = "ok"
    /\ \A i \in 1..Len(creates) : creates[i] = "ok" => i = Len(creates)
    /\ (\E i \in 1..Len(creates) : creates[i] = "ok") => hosted
    /\ stores > 0 => hosted
    /\ op \in AdapterOps => stores > 0 /\ hosted

\* a second adapter constructed after the first created the index: no create
C24_Witness ==
    /\ op = "construct" /\ pc = "done" /\ outcome = "returned"
    /\ stores = 2
    /\ creates = <<"ok">>
    /\ Issued("create_index") = {}

-----------------------------------------------------------------------------
(* Properties of the calls of one chat turn (Spec) *)

\* the external calls of a turn, in the order chat makes them
ChatOrder == <<"llm_intent", "embedding", "index_query", "llm_compose">>

NonePending == \A i \in DOMAIN calls : calls[i].state # "pending"

\* the calls of the turn in progress are the first ones of ChatOrder, each
\* issued after the one before it has ended
TurnInSequence ==
    op = "chat" =>
        /\ Len(calls) \in 1..Len(ChatOrder)
        /\ \A i \in DOMAIN calls : calls[i].svc = ChatOrder[i]
        /\ \A i \in DOMAIN calls : calls[i].state = "pending" => i = Len(calls)
        /\ pc = "done" <=> NonePending
        /\ Cardinality(Issued("llm_intent") \cup Issued("llm_compose")) <= 2
        /\ Cardinality(Issued("llm_intent")) = 1
        /\ Cardinality(Issued("llm_compose")) <= 1
        /\ \A i \in Issued("llm_compose") :
              /\ calls[i - 1].svc = "index_query" /\ calls[i - 1].state = "ok"
              /\ products # <<>>

\* a turn starts only when no call of the operation before it is in flight
TurnStartsAfterCompletion ==
    (op' = "chat" /\ pc' = "llm_intent" /\ pc # "llm_intent") =>
        (pc \in {"idle", "done"} /\ NonePending)

\* C25: within one chat turn the external calls are made one after the other, in
\* the order intent extraction, embedding, index query, composition, none issued
\* while another is in flight; the language model is called once for the intent
\* and at most once for the composition, the composition only after a
\* non-empty retrieval; and a turn starts only after the turn before it ended.
C25_TurnCallsInSequence == []TurnInSequence /\ [][TurnStartsAfterCompletion]_vars

\* a turn that made all four calls, each ending well
C25_Witness ==
    /\ op = "chat" /\ pc = "done" /\ outcome = "returned"
    /\ Len(calls) = 4
    /\ \A i \in DOMAIN calls : calls[i].state = "ok"
    /\ path = "primary"

-----------------------------------------------------------------------------
(* Properties of the memory under chat and clear_memory alone (TurnsSpec) *)

\* C26: chat does not write the conversation memory: whatever chat and
\* clear_memory calls were made on an orchestrator and however each chat ended
\* (model reply, templated reply, clarification, apology), the memory holds no
\* message and get_chat_history returns the empty sequence.
C26_ChatLeavesMemoryEmpty ==
    /\ \A i \in DOMAIN memory : get_chat_history(memory[i]) = <<>>
    /\ op = "get_chat_history" => result = <<>>

\* get_chat_history right after a turn answered with the model's reply
C26_Witness ==
    /\ op = "get_chat_history" /\ pc = "done"
    /\ prev.op = "chat"
    /\ Len(calls) = 4 /\ calls[4].svc = "llm_compose" /\ calls[4].state = "ok"
    /\ response \notin {CLARIFICATION, APOLOGY, NOT_FOUND}
    /\ result = <<>>

====
